---- MODULE Spec2Model ----
(***************************************************************************)
(* Model of convert_ableton_theme.py: the colour encoder rgb_to_hex, the   *)
(* darkening helper darken_hex_color and the conversion convert_theme.     *)
(*                                                                         *)
(* Python strings are modelled as sequences of one-character strings, so   *)
(* that parsing, formatting and slicing are computed character by          *)
(* character.  A Python call that may raise is modelled by a record        *)
(* [exc, val]: exc is "none" when the call returns val, and otherwise the  *)
(* name of the exception class that leaves the call.                       *)
(***************************************************************************)
EXTENDS Integers, Sequences, FiniteSets, TLC

(***************************************************************************)
(* Bounds of the model.                                                    *)
(***************************************************************************)
\* largest number of children of SkinManager in the source document
MaxSrc == 2
\* largest number of children of Theme in the template document
MaxTgt == 2

(***************************************************************************)
(* Python values.                                                          *)
(***************************************************************************)
PyNone == [k |-> "none", n |-> 0, s |-> <<>>]
PyInt(i) == [k |-> "int", n |-> i, s |-> <<>>]
PyStr(str) == [k |-> "str", n |-> 0, s |-> str]

Ok(v) == [exc |-> "none", val |-> v]
Raise(e) == [exc |-> e, val |-> <<>>]

\* the exception classes that occur, all of them subclasses of Exception
ExceptionClasses == {"ValueError", "TypeError", "AttributeError", "KeyError", "OSError"}

DecDigits == <<"0", "1", "2", "3", "4", "5", "6", "7", "8", "9">>
HexDigits == DecDigits \o <<"a", "b", "c", "d", "e", "f">>

IsDigitOf(c, digits) == \E i \in 1..Len(digits) : digits[i] = c
DigitValue(c, digits) == (CHOOSE i \in 1..Len(digits) : digits[i] = c) - 1

RECURSIVE ParseDigits(_, _, _)
\* value of a non-empty run of digits in the base Len(digits), most
\* significant digit first; acc is the value of the digits already read
ParseDigits(str, digits, acc) ==
    IF str = <<>> THEN acc
    ELSE ParseDigits(Tail(str), digits, acc * Len(digits) + DigitValue(Head(str), digits))

AllDigits(str, digits) == \A i \in 1..Len(str) : IsDigitOf(str[i], digits)

HasSign(str) == str # <<>> /\ Head(str) \in {"-", "+"}
Unsigned(str) == IF HasSign(str) THEN Tail(str) ELSE str
IsNegative(str) == str # <<>> /\ Head(str) = "-"

\* index of the first "." of str, or Len(str) + 1 when there is none
DotIndex(str) ==
    IF \E i \in 1..Len(str) : str[i] = "."
    THEN CHOOSE i \in 1..Len(str) : str[i] = "." /\ \A j \in 1..(i - 1) : str[j] # "."
    ELSE Len(str) + 1

(***************************************************************************)
(* float(x): a Python float is kept as sign, integer part and the digits   *)
(* of the fraction.  Strings are decimal literals [sign] digits [. digits] *)
(* (no exponent, no inf/nan, no blanks): every other string of the         *)
(* alphabet used here is rejected by Python with ValueError as well.  The  *)
(* literals are short, so that the nearest double has the integer part of  *)
(* the literal.                                                            *)
(***************************************************************************)
\* the float of a literal with the sign, the digits before the dot and the
\* digits after it
FloatLiteral(negative, ipart, fpart) ==
    IF /\ AllDigits(ipart, DecDigits)
       /\ AllDigits(fpart, DecDigits)
       /\ Len(ipart) + Len(fpart) >= 1
    THEN Ok([neg |-> negative, ip |-> ParseDigits(ipart, DecDigits, 0), frac |-> fpart])
    ELSE Raise("ValueError")

\* the part of str before its first "." and the part after it
BeforeDot(str) == SubSeq(str, 1, DotIndex(str) - 1)
AfterDot(str) == SubSeq(str, DotIndex(str) + 1, Len(str))

float(x) ==
    IF x.k = "none" THEN Raise("TypeError")
    ELSE IF x.k = "int"
    THEN Ok([neg |-> x.n < 0, ip |-> IF x.n < 0 THEN -x.n ELSE x.n, frac |-> <<>>])
    ELSE FloatLiteral(IsNegative(x.s), BeforeDot(Unsigned(x.s)), AfterDot(Unsigned(x.s)))

\* int(f) rounding to the nearest integer instead of truncating
int_Rounded(f) ==
    LET up == f.frac # <<>> /\ DigitValue(Head(f.frac), DecDigits) >= 5
        mag == IF up THEN f.ip + 1 ELSE f.ip
    IN  IF f.neg THEN -mag ELSE mag

\* int(f) of a float: truncation toward zero
int(f) == IF f.neg THEN -f.ip ELSE f.ip

\* int(float(x)) as one expression: the exception of float(x) leaves it
int_of(f) == IF f.exc # "none" THEN Raise(f.exc) ELSE Ok(int(f.val))
int_float(x) == int_of(float(x))

RECURSIVE ToHex(_)
\* lowercase hexadecimal digits of a natural number, without padding
ToHex(n) ==
    IF n < 16 THEN <<HexDigits[n + 1]>>
    ELSE ToHex(n \div 16) \o <<HexDigits[(n % 16) + 1]>>

\* the format specification :x, without the zero padding
Format02x_NoPadding(n) == IF n < 0 THEN <<"-">> \o ToHex(-n) ELSE ToHex(n)

\* the format specification :02x : sign, then the digits zero-padded so that
\* the whole field has at least two characters
Format02x(n) ==
    IF n < 0 THEN <<"-">> \o ToHex(-n)
    ELSE IF n < 16 THEN <<"0">> \o ToHex(n)
    ELSE ToHex(n)

\* the colour returned when the conversion fails
DefaultGray == <<"#", "b", "c", "b", "c", "b", "c">>

\* the inner try of rgb_to_hex: except ValueError: a_int = 255
alpha_int(a_try) == IF a_try.exc = "ValueError" THEN Ok(255) ELSE a_try

\* the outer try block once the four conversions are evaluated; the first
\* of them that raised ends the block
rgb_to_hex_format(r_int, g_int, b_int, a_int) ==
    IF r_int.exc # "none" THEN Raise(r_int.exc)
    ELSE IF g_int.exc # "none" THEN Raise(g_int.exc)
    ELSE IF b_int.exc # "none" THEN Raise(b_int.exc)
    ELSE IF a_int.exc # "none" THEN Raise(a_int.exc)
    ELSE IF a_int.val = 255
    THEN Ok(<<"#">> \o Format02x(r_int.val) \o Format02x(g_int.val) \o Format02x(b_int.val))
    ELSE Ok(<<"#">> \o Format02x(r_int.val) \o Format02x(g_int.val) \o Format02x(b_int.val)
                    \o Format02x(a_int.val))

\* the body of the outer try block of rgb_to_hex
rgb_to_hex_try(r, g, b, a) ==
    rgb_to_hex_format(int_float(r), int_float(g), int_float(b), alpha_int(int_float(a)))

\* an outer handler that catches ValueError only
rgb_to_hex_handled_ValueErrorOnly == {"ValueError"}

\* the classes the outer handler of rgb_to_hex catches: except Exception
rgb_to_hex_handled == ExceptionClasses

\* the outer handler: print the error and return the default gray
rgb_to_hex_except(try) ==
    IF try.exc # "none" /\ try.exc \in rgb_to_hex_handled THEN Ok(DefaultGray) ELSE try

rgb_to_hex(r, g, b, a) == rgb_to_hex_except(rgb_to_hex_try(r, g, b, a))

(***************************************************************************)
(* darken_hex_color(hex_color, percent).  percent is given in hundredths   *)
(* (0.94 is 94): for every channel 0..255 the float product r * 0.94       *)
(* truncates to the same integer as the exact r * 94 / 100.                *)
(***************************************************************************)
RECURSIVE lstrip(_, _)
lstrip(str, c) == IF str # <<>> /\ Head(str) = c THEN lstrip(Tail(str), c) ELSE str

\* the slice str[lo:hi] of Python (0-based, hi excluded, cut at the end)
Slice(str, lo, hi) == SubSeq(str, lo + 1, IF hi < Len(str) THEN hi ELSE Len(str))

\* int(str, 16) on the alphabet of sign and lowercase hex digits
int16(str) ==
    IF Unsigned(str) # <<>> /\ AllDigits(Unsigned(str), HexDigits)
    THEN Ok(IF IsNegative(str) THEN -ParseDigits(Unsigned(str), HexDigits, 0)
            ELSE ParseDigits(Unsigned(str), HexDigits, 0))
    ELSE Raise("ValueError")

\* a factor is held in hundredths: percent = 94 is the float 0.94
PercentScale == 100

\* The product c * percent is a product of doubles.  Where the real product
\* has a fractional part, truncating the double gives the same integer; where
\* the real product is an integer, the double is that integer or the double
\* just below it.  These are the pairs << hundredths, |c| >> with |c| <= 255
\* whose double product lies just below (90 * 0.7 = 62.99999999999999).
FloatShortfall ==
    { <<29, 100>>, <<29, 200>>, <<35, 180>>, <<57, 100>>, <<57, 200>>,
      <<58, 50>>, <<58, 100>>, <<58, 200>>, <<70, 90>>, <<70, 170>>,
      <<70, 180>>, <<82, 150>> }

Magnitude(c) == IF c < 0 THEN -c ELSE c

\* int(m * percent) for m >= 0
ScaleMagnitude(m, percent) ==
    IF <<percent, m>> \in FloatShortfall THEN ((m * percent) \div PercentScale) - 1
    ELSE (m * percent) \div PercentScale

\* int() of a double rounds to the nearest integer
Scale_Rounded(c, percent) ==
    IF c < 0 THEN -((Magnitude(c) * percent + 50) \div PercentScale)
    ELSE (c * percent + 50) \div PercentScale

\* int(c * percent): the product truncated toward zero
Scale(c, percent) ==
    IF c < 0 THEN -ScaleMagnitude(Magnitude(c), percent)
    ELSE ScaleMagnitude(c, percent)

min(x, y) == IF x < y THEN x ELSE y
max(x, y) == IF x > y THEN x ELSE y

\* lines 39-49 once the three channels are parsed; the first int(..., 16)
\* that raised ends the function
darken_channels(r, g, b, percent) ==
    IF r.exc # "none" THEN Raise(r.exc)
    ELSE IF g.exc # "none" THEN Raise(g.exc)
    ELSE IF b.exc # "none" THEN Raise(b.exc)
    ELSE Ok(<<"#">> \o Format02x(min(255, max(0, Scale(r.val, percent))))
                    \o Format02x(min(255, max(0, Scale(g.val, percent))))
                    \o Format02x(min(255, max(0, Scale(b.val, percent)))))

\* lines 34-49 on the colour without its leading '#'
darken_stripped(hex, percent) ==
    darken_channels(int16(Slice(hex, 0, 2)), int16(Slice(hex, 2, 4)), int16(Slice(hex, 4, 6)),
                    percent)

darken_hex_color(hex_color, percent) == darken_stripped(lstrip(hex_color, "#"), percent)

(***************************************************************************)
(* The documents.                                                          *)
(***************************************************************************)
\* the factor of the take lane rule, in hundredths (0.94)
TakeLanePercent == 94

\* the six special parameters of Live 12, in the order of their blocks
SpecialRules ==
    << [target |-> "BrowserTagBackground", source |-> "StandbySelectionBackground", darken |-> FALSE],
       [target |-> "TakeLaneTrackHighlighted", source |-> "SurfaceHighlight", darken |-> FALSE],
       [target |-> "TakeLaneTrackNotHighlighted", source |-> "SurfaceBackground", darken |-> TRUE],
       [target |-> "ViewControlOn", source |-> "ChosenDefault", darken |-> FALSE],
       [target |-> "ViewControlOff", source |-> "TransportOffBackground", darken |-> FALSE],
       [target |-> "MainViewFocusIndicator", source |-> "ControlOffForeground", darken |-> FALSE] >>

SpecialTargets == {SpecialRules[k].target : k \in 1..Len(SpecialRules)}
SpecialSources == {SpecialRules[k].source : k \in 1..Len(SpecialRules)}

\* The tag names the documents are built from: the targets and the sources
\* of the first block, of the take lane block that darkens and of the last
\* block, a name that is no special parameter and one of an excluded prefix.
\* The blocks of the other three targets run without an entry to write to.
RulesInDocuments == {1, 3, 6}
\* tag names of the children of SkinManager in the source document
Live10Tags ==
    {SpecialRules[k].target : k \in RulesInDocuments}
        \cup {SpecialRules[k].source : k \in RulesInDocuments} \cup {"Other"}
\* tag names of the children of Theme in the template document
Live12Tags ==
    {SpecialRules[k].target : k \in RulesInDocuments} \cup {"Other", "StandardVuMeter"}

\* a parameter analysis without the test of the prefixes
HasExcludedPrefix_None(tag) == FALSE

\* element.tag.startswith(p) for one of the prefixes Standard, Overload,
\* Disabled, Headphones, SendsOnly, BipolarGainReduction, Orange
HasExcludedPrefix(tag) == tag \in {"StandardVuMeter"}

\* a child element that is missing: find() returned None
NoChild == [k |-> "absent", n |-> 0, s |-> <<>>]

\* the R, G, B and Alpha children of a colour element of the source: the
\* Value attribute of the child, PyNone when the child has no Value
\* attribute, NoChild when there is no such child
Colours ==
    { [R |-> PyStr(<<"2", "0", "0">>), G |-> PyStr(<<"2", "0", "0">>),
       B |-> PyStr(<<"2", "0", "0">>), Alpha |-> NoChild],
      [R |-> PyStr(<<"2", "5", "5", ".", "0">>), G |-> PyStr(<<"0">>),
       B |-> PyStr(<<"0">>), Alpha |-> PyStr(<<"1", "2", "8">>)],
      [R |-> PyStr(<<"2", "5", "6">>), G |-> PyStr(<<"-", "1">>),
       B |-> PyStr(<<"0">>), Alpha |-> PyStr(<<"2", "5", "5">>)] }

\* the same elements with one child removed
Malformed ==
    { [c EXCEPT !.R = NoChild] : c \in Colours } \cup
    { [c EXCEPT !.G = NoChild] : c \in Colours } \cup
    { [c EXCEPT !.B = NoChild] : c \in Colours }

\* the children of SkinManager that the source document may hold
SourceElements ==
    { [tag |-> t, R |-> c.R, G |-> c.G, B |-> c.B, Alpha |-> c.Alpha] :
        t \in Live10Tags, c \in Colours \cup Malformed }

\* the Value every entry of the template starts with
TemplateValue == <<"#", "1", "1", "1", "1", "1", "1">>

ThemeElements == { [tag |-> t, Value |-> TemplateValue] : t \in Live12Tags }

\* the children of Theme that the template document may hold
TemplateDocs == UNION { [1..n -> ThemeElements] : n \in 0..MaxTgt }

\* the values encode is called with
RawValues ==
    { PyInt(0), PyInt(10), PyInt(200), PyInt(255), PyInt(256), PyInt(-1),
      PyStr(<<"2", "5", "5", ".", "0">>), PyStr(<<"1", "2", "8">>),
      PyStr(<<"2", "0", "0", ".", "7">>), PyStr(<<"-", "0", ".", "5">>),
      PyStr(<<"2", "5", "5", ".", "9">>), PyStr(<<"a", "b", "c">>), PyNone }

(***************************************************************************)
(* State.                                                                  *)
(***************************************************************************)
VARIABLES
    pc,                  \* the position in convert_theme
    result,              \* what convert_theme returned: "None", "output_file"
    raised,              \* the exception that left convert_theme, or "none"
    live10_doc,          \* the source file: "missing", "unparsable", "no_SkinManager", "ok"
    live12_doc,          \* the template file: "missing", "unparsable", "no_Theme", "ok"
    remaining,           \* elements of findall(".//SkinManager/*") not yet visited
    live10_params,       \* dict: tag -> <<r, g, b, alpha>>
    template,            \* the children of Theme as they were parsed
    theme_live12,        \* the children of Theme in the tree in memory
    idx,                 \* position of the loop over theme_live12, or the special block
    live10_only_params,
    live12_only_params,
    updated_count,
    new_param_count,
    output_file,         \* the file on disk: "absent", "partial", "raw", "formatted"
    enc_in,              \* arguments of a call of rgb_to_hex
    enc_out,             \* what the call returned or raised
    dark_in,             \* arguments of a call of darken_hex_color
    dark_out             \* what the call returned or raised

vars == << pc, result, raised, live10_doc, live12_doc, remaining, live10_params, template,
           theme_live12, idx, live10_only_params, live12_only_params, updated_count,
           new_param_count, output_file, enc_in, enc_out,
                    dark_in, dark_out >>

convert_vars == << pc, result, raised, live10_doc, live12_doc, remaining, live10_params, template,
                   theme_live12, idx, live10_only_params, live12_only_params, updated_count,
                   new_param_count, output_file >>

NotCalled == [exc |-> "pending", val |-> <<>>]

EmptyDict == [t \in {} |-> <<>>]

\* the state at the call of convert_theme, the two files apart
ConvertEntry ==
    /\ pc = "check_files"
    /\ result = "pending"
    /\ raised = "none"
    /\ remaining = 0
    /\ live10_params = EmptyDict
    /\ template = <<>>
    /\ theme_live12 = <<>>
    /\ idx = 0
    /\ live10_only_params = {}
    /\ live12_only_params = {}
    /\ updated_count = 0
    /\ new_param_count = 0
    /\ output_file = "absent"

Init ==
    /\ ConvertEntry
    /\ live10_doc \in {"missing", "unparsable", "no_SkinManager", "ok"}
    /\ live12_doc \in {"missing", "unparsable", "no_Theme", "ok"}
    /\ enc_in = <<>>
    /\ enc_out = NotCalled
    /\ dark_in = <<>>
    /\ dark_out = NotCalled

\* return None
ReturnNone ==
    /\ pc' = "done"
    /\ result' = "None"

\* an exception leaves convert_theme
Propagate(e) ==
    /\ pc' = "done"
    /\ raised' = e

(***************************************************************************)
(* convert_theme, lines 131-138: both files must exist.                    *)
(***************************************************************************)
CheckFiles ==
    /\ pc = "check_files"
    /\ IF live10_doc = "missing" \/ live12_doc = "missing"
       THEN ReturnNone
       ELSE pc' = "output_path" /\ UNCHANGED result
    /\ UNCHANGED << raised, live10_doc, live12_doc, remaining, live10_params, template, theme_live12,
                    idx, live10_only_params, live12_only_params, updated_count,
                    new_param_count, output_file, enc_in, enc_out,
                    dark_in, dark_out >>

(***************************************************************************)
(* lines 140-154: the output path; os.makedirs is outside every try.       *)
(***************************************************************************)
OutputPath ==
    /\ pc = "output_path"
    /\ \E output_dir_given, makedirs_ok \in BOOLEAN :
          IF output_dir_given /\ ~makedirs_ok
          THEN Propagate("OSError")
          ELSE pc' = "parse_live10" /\ UNCHANGED raised
    /\ UNCHANGED << result, live10_doc, live12_doc, remaining, live10_params, template, theme_live12,
                    idx, live10_only_params, live12_only_params, updated_count,
                    new_param_count, output_file, enc_in, enc_out,
                    dark_in, dark_out >>

(***************************************************************************)
(* lines 156-162: parse the source document.  Its SkinManager has n        *)
(* children; without a SkinManager findall yields no element.              *)
(***************************************************************************)
ParseLive10 ==
    /\ pc = "parse_live10"
    /\ \E n \in 0..MaxSrc :
          IF live10_doc = "unparsable"
          THEN ReturnNone /\ UNCHANGED remaining
          ELSE /\ pc' = "parse_live12"
               /\ remaining' = IF live10_doc = "ok" THEN n ELSE 0
               /\ UNCHANGED result
    /\ UNCHANGED << raised, live10_doc, live12_doc, live10_params, template, theme_live12,
                    idx, live10_only_params, live12_only_params, updated_count,
                    new_param_count, output_file, enc_in, enc_out,
                    dark_in, dark_out >>

(***************************************************************************)
(* lines 164-175: parse the template and find its Theme element.           *)
(***************************************************************************)
ParseLive12 ==
    /\ pc = "parse_live12"
    /\ \E doc \in TemplateDocs :
          IF live12_doc # "ok"
          THEN ReturnNone /\ UNCHANGED << template, theme_live12 >>
          ELSE /\ pc' = "extract"
               /\ template' = doc
               /\ theme_live12' = doc
               /\ UNCHANGED result
    /\ UNCHANGED << raised, live10_doc, live12_doc, remaining, live10_params,
                    idx, live10_only_params, live12_only_params, updated_count,
                    new_param_count, output_file, enc_in, enc_out,
                    dark_in, dark_out >>

(***************************************************************************)
(* lines 179-193: one iteration of the loop over the children of           *)
(* SkinManager.  element.find("G").get("Value") is outside every try: when *)
(* find returns None the AttributeError leaves convert_theme.              *)
(***************************************************************************)
\* child.get("Value") of the child found, or the AttributeError of None.get
get_Value(child) == IF child = NoChild THEN Raise("AttributeError") ELSE Ok(child)

\* live10_params[tag_name] = value
SetItem(dict, key, value) ==
    [t \in DOMAIN dict \cup {key} |-> IF t = key THEN value ELSE dict[t]]

ExtractElement ==
    /\ pc = "extract"
    /\ remaining > 0
    /\ \E element \in SourceElements :
          LET r == get_Value(element.R)
              g == get_Value(element.G)
              b == get_Value(element.B)
              alpha == IF element.Alpha # NoChild THEN element.Alpha
                       ELSE PyStr(<<"2", "5", "5">>)
          IN  IF element.R = NoChild
              THEN \* continue
                   /\ remaining' = remaining - 1
                   /\ UNCHANGED << pc, raised, live10_params >>
              ELSE IF g.exc # "none"
              THEN Propagate(g.exc) /\ UNCHANGED << remaining, live10_params >>
              ELSE IF b.exc # "none"
              THEN Propagate(b.exc) /\ UNCHANGED << remaining, live10_params >>
              ELSE /\ live10_params' =
                          SetItem(live10_params, element.tag, <<r.val, g.val, b.val, alpha>>)
                   /\ remaining' = remaining - 1
                   /\ UNCHANGED << pc, raised >>
    /\ UNCHANGED << result, live10_doc, live12_doc, template, theme_live12,
                    idx, live10_only_params, live12_only_params, updated_count,
                    new_param_count, output_file, enc_in, enc_out,
                    dark_in, dark_out >>

\* where the pass goes after the element at position i - 1 of the Theme
AfterElement(i) == IF i <= Len(theme_live12) THEN "transfer" ELSE "special"

(***************************************************************************)
(* lines 195-211: the loop over SkinManager has ended; the two diagnostic  *)
(* sets and the counters are set up.                                       *)
(***************************************************************************)
ParameterAnalysis ==
    /\ pc = "extract"
    /\ remaining = 0
    /\ live10_only_params' = DOMAIN live10_params
    /\ live12_only_params' =
          { theme_live12[i].tag : i \in { j \in 1..Len(theme_live12) :
                /\ theme_live12[j].tag \notin DOMAIN live10_params
                /\ ~HasExcludedPrefix(theme_live12[j].tag) } }
    /\ updated_count' = 0
    /\ new_param_count' = 0
    /\ idx' = 1
    /\ pc' = AfterElement(1)
    /\ UNCHANGED << result, raised, live10_doc, live12_doc, remaining, live10_params, template,
                    theme_live12, output_file, enc_in, enc_out,
                    dark_in, dark_out >>

\* a write that reaches every child of Theme
SetValue_All(theme, i, hex_value) ==
    [j \in 1..Len(theme) |-> [theme[j] EXCEPT !.Value = hex_value]]

\* element.set("Value", hex_value) on the element at position i
SetValue(theme, i, hex_value) == [theme EXCEPT ![i].Value = hex_value]

(***************************************************************************)
(* lines 215-226: one iteration of the loop over the children of Theme.    *)
(* live10_only_params.remove raises KeyError when the tag was removed by   *)
(* an earlier element of the same name; it is raised after the write and   *)
(* the count, inside the try, and the handler only prints.                 *)
(***************************************************************************)
\* a loop body that counts after live10_only_params.remove: the KeyError of a
\* repeated name skips the count
TransferValue_CountAfterRemove(tag, hex_value) ==
    IF hex_value.exc # "none"
    THEN UNCHANGED << theme_live12, updated_count, live10_only_params >>
    ELSE /\ theme_live12' = SetValue(theme_live12, idx, hex_value.val)
         /\ updated_count' = IF tag \in live10_only_params THEN updated_count + 1
                              ELSE updated_count
         /\ live10_only_params' = live10_only_params \ {tag}

\* lines 219-226: the try of the loop after its call of rgb_to_hex, for the
\* element at idx
TransferValue(tag, hex_value) ==
    IF hex_value.exc # "none"
    THEN UNCHANGED << theme_live12, updated_count, live10_only_params >>
    ELSE /\ theme_live12' = SetValue(theme_live12, idx, hex_value.val)
         /\ updated_count' = updated_count + 1
         /\ live10_only_params' = live10_only_params \ {tag}

Transfer ==
    /\ pc = "transfer"
    /\ idx <= Len(theme_live12)
    /\ IF theme_live12[idx].tag \in DOMAIN live10_params
       THEN TransferValue(theme_live12[idx].tag,
                          rgb_to_hex(live10_params[theme_live12[idx].tag][1],
                                     live10_params[theme_live12[idx].tag][2],
                                     live10_params[theme_live12[idx].tag][3],
                                     live10_params[theme_live12[idx].tag][4]))
       ELSE UNCHANGED << theme_live12, updated_count, live10_only_params >>
    /\ idx' = idx + 1
    /\ pc' = AfterElement(idx + 1)
    /\ UNCHANGED << result, raised, live10_doc, live12_doc, remaining, live10_params, template,
                    live12_only_params, new_param_count, output_file, enc_in, enc_out,
                    dark_in, dark_out >>

\* theme_live12.find(tag): the position of the first child with that tag,
\* 0 for None
find(theme, tag) ==
    IF \E i \in 1..Len(theme) : theme[i].tag = tag
    THEN CHOOSE i \in 1..Len(theme) :
            theme[i].tag = tag /\ \A j \in 1..(i - 1) : theme[j].tag # tag
    ELSE 0

\* a special block whose try does not cover darken_hex_color: what the call
\* left behind is written whether or not it raised
Derive_Unhandled(rule, hex_value) ==
    IF rule.darken THEN Ok(darken_hex_color(hex_value.val, TakeLanePercent).val)
    ELSE hex_value

\* the try of a special block after its call of rgb_to_hex: an exception of
\* rgb_to_hex or of darken_hex_color ends the try
Derive(rule, hex_value) ==
    IF hex_value.exc # "none" THEN hex_value
    ELSE IF rule.darken THEN darken_hex_color(hex_value.val, TakeLanePercent)
    ELSE hex_value

\* a take lane block that forgets to darken
DerivedValue_NoDarken(rule, params) ==
    rgb_to_hex(params[rule.source][1], params[rule.source][2],
               params[rule.source][3], params[rule.source][4])

\* the value a special block computes inside its try
DerivedValue(rule, params) ==
    Derive(rule, rgb_to_hex(params[rule.source][1], params[rule.source][2],
                            params[rule.source][3], params[rule.source][4]))

\* a special block that does not look for a direct match
DirectlyMatched_Ignored(rule, params) == FALSE

\* the test of a special block that keeps the transferred value
DirectlyMatched(rule, params) == rule.target \in DOMAIN params

\* the try of a special block after its value is computed: the write to the
\* element found, the two counts and the removal from live12_only_params
SpecialWrite(rule, element, value) ==
    IF value.exc # "none"
    THEN UNCHANGED << theme_live12, updated_count, new_param_count, live12_only_params >>
    ELSE /\ theme_live12' = SetValue(theme_live12, element, value.val)
         /\ updated_count' = updated_count + 1
         /\ new_param_count' = new_param_count + 1
         /\ live12_only_params' = live12_only_params \ {rule.target}

\* one special block: the element is found, no direct match, the source is a key
SpecialBlock(rule) ==
    IF /\ find(theme_live12, rule.target) # 0
       /\ ~DirectlyMatched(rule, live10_params)
       /\ rule.source \in DOMAIN live10_params
    THEN SpecialWrite(rule, find(theme_live12, rule.target), DerivedValue(rule, live10_params))
    ELSE UNCHANGED << theme_live12, updated_count, new_param_count, live12_only_params >>

(***************************************************************************)
(* lines 231-360: the six special blocks, one step each; idx - Len(theme)  *)
(* is the number of the block.                                             *)
(***************************************************************************)
SpecialHandling ==
    /\ pc = "special"
    /\ SpecialBlock(SpecialRules[idx - Len(theme_live12)])
    /\ pc' = IF idx - Len(theme_live12) < Len(SpecialRules) THEN "special" ELSE "save"
    /\ idx' = idx + 1
    /\ UNCHANGED << result, raised, live10_doc, live12_doc, remaining, live10_params, template,
                    live10_only_params, output_file, enc_in, enc_out,
                    dark_in, dark_out >>

(***************************************************************************)
(* lines 380-383: tree_live12.write; a failure is caught at line 410 and   *)
(* may leave a part of the file behind.                                    *)
(***************************************************************************)
Save ==
    /\ pc = "save"
    /\ \E written \in {"raw", "partial", "absent"} :
          /\ output_file' = written
          /\ IF written = "raw"
             THEN pc' = "format" /\ UNCHANGED result
             ELSE ReturnNone
    /\ UNCHANGED << raised, live10_doc, live12_doc, remaining, live10_params, template,
                    theme_live12, idx, live10_only_params, live12_only_params,
                    updated_count, new_param_count, enc_in, enc_out,
                    dark_in, dark_out >>

(***************************************************************************)
(* lines 385-412: the file is read back, indented and written again; a     *)
(* failure is caught at line 410 and leaves the file of line 382.          *)
(***************************************************************************)
Format ==
    /\ pc = "format"
    /\ \E ok \in BOOLEAN :
          IF ok
          THEN /\ output_file' = "formatted"
               /\ pc' = "done"
               /\ result' = "output_file"
          ELSE /\ ReturnNone
               /\ UNCHANGED output_file
    /\ UNCHANGED << raised, live10_doc, live12_doc, remaining, live10_params, template,
                    theme_live12, idx, live10_only_params, live12_only_params,
                    updated_count, new_param_count, enc_in, enc_out,
                    dark_in, dark_out >>

Next ==
    \/ CheckFiles
    \/ OutputPath
    \/ ParseLive10
    \/ ParseLive12
    \/ ExtractElement
    \/ ParameterAnalysis
    \/ Transfer
    \/ SpecialHandling
    \/ Save
    \/ Format

Spec == Init /\ [][Next]_vars

(***************************************************************************)
(* Calls of rgb_to_hex on their own.                                       *)
(***************************************************************************)
EncodeInit ==
    /\ ConvertEntry
    /\ live10_doc = "ok"
    /\ live12_doc = "ok"
    /\ enc_in \in RawValues \X RawValues \X RawValues \X RawValues
    /\ enc_out = NotCalled
    /\ dark_in = <<>>
    /\ dark_out = NotCalled

CallEncode ==
    /\ enc_out = NotCalled
    /\ enc_out' = rgb_to_hex(enc_in[1], enc_in[2], enc_in[3], enc_in[4])
    /\ UNCHANGED << enc_in, dark_in, dark_out, convert_vars >>

EncodeNext == CallEncode

EncodeSpec == EncodeInit /\ [][EncodeNext]_vars

(***************************************************************************)
(* Calls of darken_hex_color on their own.                                 *)
(***************************************************************************)
\* two hex digits of a channel: 0, 50, 90, 100, 200, 255
HexPairs ==
    { <<"0", "0">>, <<"3", "2">>, <<"5", "a">>, <<"6", "4">>, <<"c", "8">>, <<"f", "f">> }

\* 6-hex-digit colours, with and without the leading '#'
SixDigitColours ==
    { r \o g \o b : r \in HexPairs, g \in HexPairs, b \in HexPairs }
        \cup { <<"#">> \o r \o g \o b : r \in HexPairs, g \in HexPairs, b \in HexPairs }

\* every factor 0.00, 0.01, ..., 1.00
Percents == 0..PercentScale

DarkenInit ==
    /\ ConvertEntry
    /\ live10_doc = "ok"
    /\ live12_doc = "ok"
    /\ enc_in = <<>>
    /\ enc_out = NotCalled
    /\ dark_in \in SixDigitColours \X Percents
    /\ dark_out = NotCalled

CallDarken ==
    /\ dark_out = NotCalled
    /\ dark_out' = darken_hex_color(dark_in[1], dark_in[2])
    /\ UNCHANGED << dark_in, enc_in, enc_out, convert_vars >>

DarkenNext == CallDarken

DarkenSpec == DarkenInit /\ [][DarkenNext]_vars

(***************************************************************************)
(* Properties.                                                             *)
(***************************************************************************)
\* the loop over Theme has ended
TransferDone == pc \in {"special", "save", "format", "done"} /\ idx > Len(theme_live12)

\* the loop over Theme and the six special blocks have ended
PassesDone ==
    /\ pc \in {"save", "format", "done"}
    /\ idx = Len(theme_live12) + Len(SpecialRules) + 1

\* encode applied to an entry of the ParameterMap
Encoded(c) == rgb_to_hex(c[1], c[2], c[3], c[4])

\* the rule whose target is the tag
RuleOf(tag) == SpecialRules[CHOOSE k \in 1..Len(SpecialRules) : SpecialRules[k].target = tag]

\* '#' followed by exactly n lowercase hex digits
IsHexColour(str, n) ==
    /\ Len(str) = n + 1
    /\ str[1] = "#"
    /\ \A i \in 2..Len(str) : str[i] \in
          {"0", "1", "2", "3", "4", "5", "6", "7", "8", "9", "a", "b", "c", "d", "e", "f"}

\* C1, as a state predicate: once the loop over Theme has ended, every entry
\* whose name is a special target and a key of the ParameterMap holds the
\* encoded colour of its own name, also while and after the special blocks run.
C1_DirectValueKept ==
    TransferDone =>
        \A i \in 1..Len(theme_live12) :
            LET tag == theme_live12[i].tag
            IN  (tag \in SpecialTargets /\ tag \in DOMAIN live10_params)
                    => theme_live12[i].Value = Encoded(live10_params[tag]).val

\* C1, as a step property: the special block of a target that is a key of the
\* ParameterMap writes nothing and counts nothing.
C1_RuleSkipped ==
    (pc = "special" /\ SpecialRules[idx - Len(theme_live12)].target \in DOMAIN live10_params)
        => UNCHANGED << theme_live12, updated_count, new_param_count, live12_only_params >>

\* C1: a direct match takes precedence over the derivation: every entry named
\* after a special target that is a key of the ParameterMap holds
\* encode(ParameterMap[N]) after the conversion, and the derivation rule of N
\* is never applied, whether or not the source of the rule is present.
C1_DirectMatchPrecedence == [] C1_DirectValueKept /\ [][C1_RuleSkipped]_vars

\* witness of C1: both the special target and the source of its rule are keys,
\* with different colours, and the conversion has finished
C1_Witness ==
    /\ PassesDone
    /\ \E i \in 1..Len(theme_live12) :
          LET tag == theme_live12[i].tag
          IN  /\ tag \in SpecialTargets
              /\ tag \in DOMAIN live10_params
              /\ RuleOf(tag).source \in DOMAIN live10_params
              /\ Encoded(live10_params[RuleOf(tag).source]) # Encoded(live10_params[tag])
              /\ theme_live12[i].Value = Encoded(live10_params[tag]).val

\* the rules whose target has an entry, is not a key, and whose source is a key
Derivable(k) ==
    /\ find(theme_live12, SpecialRules[k].target) # 0
    /\ SpecialRules[k].target \notin DOMAIN live10_params
    /\ SpecialRules[k].source \in DOMAIN live10_params

\* C2 as stated: after the conversion, for each rule (T, S) with an entry T,
\* T not a key and S a key, the entry T holds encode(ParameterMap[S]), and for
\* TakeLaneTrackNotHighlighted darken(encode(ParameterMap[SurfaceBackground]),
\* 0.94), a 6-hex-digit colour.
C2_DerivationTable_AsStated ==
    PassesDone =>
        \A k \in 1..Len(SpecialRules) :
            Derivable(k) =>
                LET rule == SpecialRules[k]
                    value == theme_live12[find(theme_live12, rule.target)].Value
                    hex == Encoded(live10_params[rule.source]).val
                IN  IF rule.target = "TakeLaneTrackNotHighlighted"
                    THEN /\ value = darken_hex_color(hex, 94).val
                         /\ IsHexColour(value, 6)
                    ELSE value = hex

\* C2, amended: as stated, except that when darken raises on the encoded
\* colour the entry TakeLaneTrackNotHighlighted keeps its template value; the
\* value is a 6-hex-digit colour otherwise, #bcbcbc for (200,200,200,255).
\* The entry T is the first child of that name; every rule is judged on its own.
C2_DerivationTable ==
    PassesDone =>
        \A k \in 1..Len(SpecialRules) :
            Derivable(k) =>
                LET rule == SpecialRules[k]
                    e == find(theme_live12, rule.target)
                    value == theme_live12[e].Value
                    c == live10_params[rule.source]
                    hex == Encoded(c).val
                    dark == darken_hex_color(hex, 94)
                IN  IF rule.target = "TakeLaneTrackNotHighlighted"
                    THEN /\ dark.exc = "none" => value = dark.val /\ IsHexColour(value, 6)
                         /\ dark.exc # "none" => value = template[e].Value
                         /\ c = << PyStr(<<"2", "0", "0">>), PyStr(<<"2", "0", "0">>),
                                   PyStr(<<"2", "0", "0">>), PyStr(<<"2", "5", "5">>) >>
                               => value = <<"#", "b", "c", "b", "c", "b", "c">>
                    ELSE value = hex

\* witness of C2: the take lane entry was derived from SurfaceBackground =
\* (200,200,200,255) and a second rule was derived in the same run
C2_Witness ==
    /\ PassesDone
    /\ \E k \in 1..Len(SpecialRules) :
          /\ Derivable(k)
          /\ SpecialRules[k].target = "TakeLaneTrackNotHighlighted"
          /\ theme_live12[find(theme_live12, SpecialRules[k].target)].Value
                = <<"#", "b", "c", "b", "c", "b", "c">>
    /\ \E k \in 1..Len(SpecialRules) :
          /\ Derivable(k)
          /\ SpecialRules[k].target # "TakeLaneTrackNotHighlighted"
          /\ theme_live12[find(theme_live12, SpecialRules[k].target)].Value # TemplateValue
    /\ new_param_count = 2

\* no rule applies to the tag: it is no special target, or the source of its
\* rule is no key of the ParameterMap
NoRuleApplies(tag) ==
    tag \notin SpecialTargets \/ RuleOf(tag).source \notin DOMAIN live10_params

\* C3: an entry whose name is not a key of the ParameterMap and to which no
\* derivation rule applies has the Value it had in the template, at every
\* point of the conversion.
C3_UnmatchedEntryUntouched ==
    \A i \in 1..Len(theme_live12) :
        LET tag == theme_live12[i].tag
        IN  (tag \notin DOMAIN live10_params /\ NoRuleApplies(tag))
                => theme_live12[i].Value = template[i].Value

\* witness of C3: the conversion has written to one entry and left alone
\* another one that has neither a direct match nor an applicable rule
C3_Witness ==
    /\ PassesDone
    /\ updated_count > 0
    /\ \E i \in 1..Len(theme_live12) :
          /\ theme_live12[i].tag \notin DOMAIN live10_params
          /\ NoRuleApplies(theme_live12[i].tag)
          /\ theme_live12[i].Value = template[i].Value
    /\ \E i \in 1..Len(theme_live12) : theme_live12[i].Value # template[i].Value

\* C4 as stated: convert_theme returns None whenever the source has no
\* SkinManager, the template has no Theme, or either document is missing or
\* cannot be parsed.
C4_NoneWithoutColourTable ==
    (pc = "done" /\ raised = "none" /\ (live10_doc # "ok" \/ live12_doc # "ok"))
        => result = "None"

\* C5 as stated: a run that ends in failure has left every entry at its
\* template value and has produced no output.
C5_FailureBeforeAnyWrite ==
    (pc = "done" /\ result = "None")
        => (theme_live12 = template /\ output_file = "absent")

\* C6 as stated: no error of the extraction leaves the conversion; an entry
\* with an R child but no G or B child is skipped.
C6_ExtractionNeverFails == raised # "AttributeError"

(***************************************************************************)
(* Properties of rgb_to_hex.  What a value is as a number is stated here   *)
(* for the values of RawValues one by one, not through float and int.      *)
(***************************************************************************)
Called == enc_out # NotCalled

\* the values that do not coerce to a number
FailsToCoerce(x) == x = PyNone \/ x = PyStr(<<"a", "b", "c">>)

\* the value truncated toward zero
Truncated(x) ==
    IF x.k = "int" THEN x.n
    ELSE IF x.s = <<"2", "5", "5", ".", "0">> THEN 255
    ELSE IF x.s = <<"1", "2", "8">> THEN 128
    ELSE IF x.s = <<"2", "0", "0", ".", "7">> THEN 200
    ELSE IF x.s = <<"-", "0", ".", "5">> THEN 0
    ELSE IF x.s = <<"2", "5", "5", ".", "9">> THEN 255
    ELSE 0

InByteRange(x) == ~FailsToCoerce(x) /\ Truncated(x) \in 0..255

\* the two-digit zero-padded lowercase hex of a channel
TwoHex(n) ==
    IF n \in 0..255 THEN << HexDigits[(n \div 16) + 1], HexDigits[(n % 16) + 1] >> ELSE <<>>

\* the last n characters of a string
LastChars(str, n) == SubSeq(str, Len(str) - n + 1, Len(str))

\* C7: encode never raises: for every r, g, b, a among integers, decimal
\* strings, non-numeric strings and None the call returns a string, and it
\* returns #bcbcbc whenever one of r, g, b does not coerce to a number.
C7_EncodeNeverRaises ==
    Called =>
        /\ enc_out.exc = "none"
        /\ Len(enc_out.val) > 0
        /\ (\E i \in 1..3 : FailsToCoerce(enc_in[i]))
              => enc_out.val = <<"#", "b", "c", "b", "c", "b", "c">>

\* witness of C7: r is None, float(None) raised TypeError and the call
\* returned the fallback colour
C7_Witness ==
    /\ Called
    /\ enc_in[1] = PyNone
    /\ ~FailsToCoerce(enc_in[4])
    /\ enc_out = Ok(<<"#", "b", "c", "b", "c", "b", "c">>)

\* C8 as stated: when r, g, b are numbers (here of the range 0..255) and alpha
\* does not coerce, a non-numeric string or a missing value, encode takes
\* alpha as 255 and returns the 6-hex-digit colour of r, g, b.
C8_AlphaDefaultsToOpaque ==
    (/\ Called
     /\ \A i \in 1..3 : InByteRange(enc_in[i])
     /\ FailsToCoerce(enc_in[4]))
        => enc_out = Ok(<<"#">> \o TwoHex(Truncated(enc_in[1]))
                               \o TwoHex(Truncated(enc_in[2]))
                               \o TwoHex(Truncated(enc_in[3])))

\* C9: for r, g, b whose truncated value lies in 0..255 and alpha truncating
\* to 255, encode returns '#' and exactly 6 lowercase hex digits, the
\* two-digit zero-padded hex of the truncated r, g and b in that order.
C9_SixDigits ==
    (/\ Called
     /\ \A i \in 1..3 : InByteRange(enc_in[i])
     /\ ~FailsToCoerce(enc_in[4])
     /\ Truncated(enc_in[4]) = 255)
        => /\ enc_out.exc = "none"
           /\ IsHexColour(enc_out.val, 6)
           /\ enc_out.val = <<"#">> \o TwoHex(Truncated(enc_in[1]))
                                   \o TwoHex(Truncated(enc_in[2]))
                                   \o TwoHex(Truncated(enc_in[3]))

\* witness of C9: decimal strings with a fraction, one of them negative
C9_Witness ==
    /\ Called
    /\ enc_in = << PyStr(<<"2", "0", "0", ".", "7">>), PyStr(<<"-", "0", ".", "5">>),
                   PyInt(10), PyStr(<<"2", "5", "5", ".", "9">>) >>
    /\ enc_out = Ok(<<"#", "c", "8", "0", "0", "0", "a">>)

\* C10 as stated: for all numeric r, g, b, a with truncated alpha other than
\* 255, encode returns '#' and exactly 8 hex digits, the last two being the
\* zero-padded hex of the truncated alpha.
C10_EightDigits_AsStated ==
    (/\ Called
     /\ \A i \in 1..4 : ~FailsToCoerce(enc_in[i])
     /\ Truncated(enc_in[4]) # 255)
        => /\ enc_out.exc = "none"
           /\ IsHexColour(enc_out.val, 8)
           /\ LastChars(enc_out.val, 2) = TwoHex(Truncated(enc_in[4]))

\* C10, amended: the same for r, g, b, a whose truncated values lie in
\* 0..255; R=255.0, G=0, B=0, Alpha=128 gives #ff000080.
C10_EightDigits ==
    (/\ Called
     /\ \A i \in 1..4 : InByteRange(enc_in[i])
     /\ Truncated(enc_in[4]) # 255)
        => /\ enc_out.exc = "none"
           /\ IsHexColour(enc_out.val, 8)
           /\ LastChars(enc_out.val, 2) = TwoHex(Truncated(enc_in[4]))
           /\ enc_in = << PyStr(<<"2", "5", "5", ".", "0">>), PyInt(0), PyInt(0),
                          PyStr(<<"1", "2", "8">>) >>
                 => enc_out.val = <<"#", "f", "f", "0", "0", "0", "0", "8", "0">>

\* witness of C10: the call with R=255.0, G=0, B=0, Alpha=128
C10_Witness ==
    /\ Called
    /\ enc_in = << PyStr(<<"2", "5", "5", ".", "0">>), PyInt(0), PyInt(0),
                   PyStr(<<"1", "2", "8">>) >>
    /\ enc_out = Ok(<<"#", "f", "f", "0", "0", "0", "0", "8", "0">>)

\* the colour passed to darken without its leading '#'
DarkenDigits == IF Head(dark_in[1]) = "#" THEN Tail(dark_in[1]) ELSE dark_in[1]

\* the value of the k-th pair of hex digits of a string of hex digits
ChannelOf(str, k) ==
    16 * DigitValue(str[2 * k - 1], HexDigits) + DigitValue(str[2 * k], HexDigits)

\* channel c times the factor n / 100 as the double product, truncated toward
\* zero: the largest integer q with 100 * q <= c * n, and one less where the
\* double product falls just below that integer
TruncatedProduct(c, n) ==
    LET q == CHOOSE x \in 0..c : 100 * x <= c * n /\ 100 * (x + 1) > c * n
    IN  IF <<n, c>> \in FloatShortfall THEN q - 1 ELSE q

\* C11: for every 6-hex-digit colour and every factor in [0, 1], darken
\* returns a 6-hex-digit colour of which each channel is at most the input
\* channel, lies in [0, 255] and equals the input channel multiplied by the
\* factor, truncated toward zero and clamped to [0, 255]; with the factor 1.0
\* the output equals the input.
C11_DarkenChannels ==
    dark_out # NotCalled =>
        /\ dark_out.exc = "none"
        /\ IsHexColour(dark_out.val, 6)
        /\ \A k \in 1..3 :
              LET cin    == ChannelOf(DarkenDigits, k)
                  cout   == ChannelOf(Tail(dark_out.val), k)
                  scaled == TruncatedProduct(cin, dark_in[2])
              IN  /\ cout <= cin
                  /\ cout \in 0..255
                  /\ cout = IF scaled > 255 THEN 255 ELSE IF scaled < 0 THEN 0 ELSE scaled
        /\ dark_in[2] = 100 => dark_out.val = <<"#">> \o DarkenDigits

\* darken('#5ac8ff', 0.7) = '#3e8cb2': 90 * 0.7 is the double
\* 62.99999999999999, 200 * 0.7 is 140.0 and 255 * 0.7 is 178.5
C11_Witness ==
    /\ dark_in = << <<"#", "5", "a", "c", "8", "f", "f">>, 70 >>
    /\ dark_out = Ok(<<"#", "3", "e", "8", "c", "b", "2">>)

\* the derivation of rule k applies and raises inside its try
DerivationRaises(k) ==
    /\ Derivable(k)
    /\ SpecialRules[k].darken
    /\ darken_hex_color(Encoded(live10_params[SpecialRules[k].source]).val, 94).exc # "none"

\* the entry at position i is the one a rule whose derivation raises writes to
SkippedEntry(i) ==
    \E k \in 1..Len(SpecialRules) :
        DerivationRaises(k) /\ i = find(theme_live12, SpecialRules[k].target)

\* C12, the entries: after the two passes an entry whose derivation raised has
\* its template Value, every entry with a direct match holds the encoded
\* colour of its name, and the entry of every other applicable rule holds a
\* derived value; no exception has left convert_theme.
C12_OthersWritten ==
    PassesDone =>
        /\ raised = "none"
        /\ \A i \in 1..Len(theme_live12) :
              /\ SkippedEntry(i) => theme_live12[i].Value = template[i].Value
              /\ theme_live12[i].tag \in DOMAIN live10_params
                    => theme_live12[i].Value = Encoded(live10_params[theme_live12[i].tag]).val
        /\ \A k \in 1..Len(SpecialRules) :
              (Derivable(k) /\ ~DerivationRaises(k))
                 => LET e == find(theme_live12, SpecialRules[k].target)
                    IN  /\ theme_live12[e].Value # template[e].Value
                        /\ ~SpecialRules[k].darken
                              => theme_live12[e].Value
                                    = Encoded(live10_params[SpecialRules[k].source]).val

\* C12, the steps: a step of the mapping pass goes on to the next entry, the
\* next special block or the save, and raises nothing
C12_PassContinues ==
    pc \in {"transfer", "special"}
        => pc' \in {"transfer", "special", "save"} /\ raised' = "none" /\ idx' = idx + 1

\* C12: the mapping pass is partial-failure tolerant: an entry whose encoding
\* or derivation raises is skipped and keeps its template Value, every other
\* entry with a direct match or an applicable rule is still written, and no
\* per-entry error aborts convert_theme.
C12_PartialFailureTolerant == [] C12_OthersWritten /\ [][C12_PassContinues]_vars

\* witness of C12: darken raised for TakeLaneTrackNotHighlighted, whose entry
\* has the template Value, and the block of MainViewFocusIndicator, which
\* comes after it, wrote its entry
C12_Witness ==
    /\ PassesDone
    /\ \E k \in 1..Len(SpecialRules) :
          /\ DerivationRaises(k)
          /\ SpecialRules[k].target = "TakeLaneTrackNotHighlighted"
          /\ theme_live12[find(theme_live12, SpecialRules[k].target)].Value = TemplateValue
    /\ \E k \in 1..Len(SpecialRules) :
          /\ Derivable(k)
          /\ SpecialRules[k].target = "MainViewFocusIndicator"
          /\ theme_live12[find(theme_live12, SpecialRules[k].target)].Value # TemplateValue
    /\ updated_count = 1
    /\ result = "output_file"

\* the names of the target entries
TargetNames == { theme_live12[i].tag : i \in 1..Len(theme_live12) }

\* the ParameterMap names that are no longer in the source-only set; the code
\* keeps no set of its own for them
ConsumedNames == (DOMAIN live10_params) \ live10_only_params

\* the ParameterMap names whose encoded colour stands in a target entry of
\* that name
WrittenNames ==
    { n \in DOMAIN live10_params :
        \E i \in 1..Len(theme_live12) :
            /\ theme_live12[i].tag = n
            /\ theme_live12[i].Value = Encoded(live10_params[n]).val
            /\ theme_live12[i].Value # template[i].Value }

\* the target names outside the ParameterMap of which no entry received a
\* value: every entry of that name has its template Value
LeftAtDefault ==
    { n \in TargetNames \ DOMAIN live10_params :
        \A i \in 1..Len(theme_live12) :
            theme_live12[i].tag = n => theme_live12[i].Value = template[i].Value }

\* the first two parts of C13 and the disjointness
C13_SourceSets ==
    /\ live10_only_params \cap live12_only_params = {}
    /\ ConsumedNames \cap live10_only_params = {}
    /\ ConsumedNames \cap live12_only_params = {}
    /\ live10_only_params = (DOMAIN live10_params) \ TargetNames
    /\ ConsumedNames = WrittenNames

\* C13 as stated: at the end of a conversion the three sets are pairwise
\* disjoint, the source-only set is the ParameterMap names without a target
\* entry, the consumed names are the ParameterMap names written to a target
\* entry, and the target-only set is exactly the target names outside the
\* ParameterMap that were left at their template default.
C13_DiagnosticSets_AsStated ==
    PassesDone => C13_SourceSets /\ live12_only_params = LeftAtDefault

\* C13, amended: as stated, except that the target-only set leaves out the
\* names that start with one of the prefixes Standard, Overload, Disabled,
\* Headphones, SendsOnly, BipolarGainReduction, Orange (StandardVuMeter in
\* the documents checked), whether or not they were left at their default.
C13_DiagnosticSets ==
    PassesDone =>
        /\ C13_SourceSets
        /\ live12_only_params = LeftAtDefault \ {"StandardVuMeter"}

\* witness of C13: a conversion has ended with a name consumed, a name only in
\* the source and a name only in the target
C13_Witness ==
    /\ PassesDone
    /\ ConsumedNames = {"Other"}
    /\ live10_only_params # {}
    /\ live12_only_params = {"BrowserTagBackground"}
    /\ result = "output_file"

\* the entries written so far: no write leaves the template Value in place,
\* and no entry is written twice
WrittenEntries ==
    { i \in 1..Len(theme_live12) : theme_live12[i].Value # template[i].Value }

\* the entries with a direct match that the loop over Theme has passed
TransferredEntries ==
    { i \in 1..Len(theme_live12) : i < idx /\ theme_live12[i].tag \in DOMAIN live10_params }

\* C14, the counters in a state: the update counter is the number of entries
\* written so far, of which the directly transferred ones are all the entries
\* with a direct match passed so far (repeated names included) and the derived
\* ones are counted by the derived-parameter counter, which is at most 6 and
\* at most the update counter.
C14_CountsWrites ==
    /\ updated_count = Cardinality(WrittenEntries)
    /\ updated_count - new_param_count = Cardinality(TransferredEntries)
    /\ new_param_count
          = Cardinality({ i \in WrittenEntries : theme_live12[i].tag \notin DOMAIN live10_params })
    /\ new_param_count <= 6
    /\ new_param_count <= updated_count

\* C14, the steps: a step that writes an entry of the parsed template adds
\* one to the update counter, and a step that leaves every entry untouched
\* leaves it alone
C14_OnePerWrite ==
    updated_count' = updated_count + (IF theme_live12' # theme_live12 /\ template' = template
                                      THEN 1 ELSE 0)

\* C14: at every point of the mapping pass the update counter equals the
\* number of writes made so far to the Value of target entries, once per
\* directly transferred entry (repeated names included), once per derived
\* entry and never for an untouched entry; the derived-parameter counter is
\* at most 6 and never exceeds the update counter.
C14_UpdateCounter == [] C14_CountsWrites /\ [][C14_OnePerWrite]_vars

\* witness of C14: two target entries of the same name were both written and
\* both counted
C14_Witness ==
    /\ PassesDone
    /\ Len(theme_live12) = 2
    /\ theme_live12[1].tag = theme_live12[2].tag
    /\ WrittenEntries = {1, 2}
    /\ updated_count = 2
    /\ new_param_count = 0

====
